---- MODULE Spec2Model ----
(***************************************************************************)
(* Fastboot client of bootbud: the wire codec (fastboot/protocol.rs), the  *)
(* client session (fastboot/mod.rs), the WebUSB transport with its         *)
(* pipelined uploader (fastboot/webusb.rs) and the two callers in main.rs. *)
(* Strings and frames are sequences of byte values.                        *)
(***************************************************************************)
EXTENDS Integers, Sequences, FiniteSets, TLC

\* ---------------------------------------------------------------- bounds
\* most chunks a byte source yields before its zero-length read
MaxChunks == 5
\* most Info frames the device sends inside one operation
MaxInfo == 2
\* most operations an API client issues on one session
MaxOps == 2

\* ------------------------------------------------------------- constants
\* queued.len() > 3 : the uploader drains once this many are in flight
WindowLimit == 3
\* self.buf.resize(64, 0) : the scratch buffer handed to read_in
BufSize == 64
\* out_ep.packet_size() of the modelled endpoint
output_size == 2

\* ---------------------------------------------------------------- bytes
OKAY == <<79, 75, 65, 89>>
INFO == <<73, 78, 70, 79>>
FAIL == <<70, 65, 73, 76>>
DATA == <<68, 65, 84, 65>>

SetMin(S) == CHOOSE x \in S : \A y \in S : x <= y
SetMax(S) == CHOOSE x \in S : \A y \in S : x >= y

\* mutant of bytes_slice_null: nothing is cut
bytes_slice_all(bytes) == bytes

\* bytes.iter().position(|&b| b == 0x00), then the slice before it
bytes_slice_null(bytes) ==
    LET nulls == {i \in 1..Len(bytes) : bytes[i] = 0}
    IN  IF nulls = {} THEN bytes ELSE SubSeq(bytes, 1, SetMin(nulls) - 1)

\* std::str::from_utf8(..).is_ok(): well-formed UTF-8 (lead byte, number of
\* continuation bytes, no overlong form, no surrogate, at most U+10FFFF)
IsCont(b) == b >= 128 /\ b <= 191
RECURSIVE Utf8From(_, _)
Utf8From(s, i) ==
    IF i > Len(s) THEN TRUE
    ELSE LET b == s[i] IN
      IF b <= 127 THEN Utf8From(s, i + 1)
      ELSE IF b >= 194 /\ b <= 223
        THEN i + 1 <= Len(s) /\ IsCont(s[i + 1]) /\ Utf8From(s, i + 2)
      ELSE IF b >= 224 /\ b <= 239
        THEN /\ i + 2 <= Len(s)
             /\ IsCont(s[i + 1]) /\ IsCont(s[i + 2])
             /\ (b = 224 => s[i + 1] >= 160)
             /\ (b = 237 => s[i + 1] <= 159)
             /\ Utf8From(s, i + 3)
      ELSE IF b >= 240 /\ b <= 244
        THEN /\ i + 3 <= Len(s)
             /\ IsCont(s[i + 1]) /\ IsCont(s[i + 2]) /\ IsCont(s[i + 3])
             /\ (b = 240 => s[i + 1] >= 144)
             /\ (b = 244 => s[i + 1] <= 143)
             /\ Utf8From(s, i + 4)
      ELSE FALSE
from_utf8_ok(s) == Utf8From(s, 1)

\* char::to_digit(16): 0-9, a-f, A-F; -1 for anything else
to_digit(b) ==
    IF b >= 48 /\ b <= 57 THEN b - 48
    ELSE IF b >= 97 /\ b <= 102 THEN b - 87
    ELSE IF b >= 65 /\ b <= 70 THEN b - 55
    ELSE -1

\* a u32 is kept as <<high 16 bits, low 16 bits>>
U32Zero == <<0, 0>>

\* u32::from_str_radix(data, 16): empty input, a lone sign, a non-digit and a
\* value above u32::MAX are errors; one leading '+' is accepted, '-' is not.
RECURSIVE RadixFrom(_, _, _)
RadixFrom(s, i, acc) ==
    IF i > Len(s) THEN [ok |-> TRUE, val |-> acc]
    ELSE LET d  == to_digit(s[i])
             hi == acc[1] * 16 + (acc[2] \div 4096)
             lo == (acc[2] % 4096) * 16 + d
         IN  IF d < 0 \/ hi > 65535 THEN [ok |-> FALSE, val |-> U32Zero]
             ELSE RadixFrom(s, i + 1, <<hi, lo>>)
from_str_radix(s) ==
    IF Len(s) = 0 THEN [ok |-> FALSE, val |-> U32Zero]
    ELSE IF Len(s) = 1 /\ s[1] \in {43, 45} THEN [ok |-> FALSE, val |-> U32Zero]
    ELSE IF s[1] = 43 THEN RadixFrom(s, 2, U32Zero)
    ELSE RadixFrom(s, 1, U32Zero)

\* a decoded frame: kind is Okay, Info, Fail, Data, or the parse error
\* UnknownReply / DataLength, or Panic when an unwrap() in from_bytes fails
Resp(kind, data, len) == [kind |-> kind, data |-> data, len |-> len]
NoResp == Resp("None", <<>>, U32Zero)

from_parts(resp, data) ==
    IF resp = OKAY THEN Resp("Okay", data, U32Zero)
    ELSE IF resp = INFO THEN Resp("Info", data, U32Zero)
    ELSE IF resp = FAIL THEN Resp("Fail", data, U32Zero)
    ELSE IF resp = DATA
      THEN LET offset == from_str_radix(data)
           IN  IF offset.ok THEN Resp("Data", <<>>, offset.val)
               ELSE Resp("DataLength", <<>>, U32Zero)
    ELSE Resp("UnknownReply", <<>>, U32Zero)

from_bytes(bytes) ==
    IF Len(bytes) < 4 THEN Resp("UnknownReply", <<>>, U32Zero)
    ELSE LET resp == SubSeq(bytes, 1, 4)
             data == bytes_slice_null(SubSeq(bytes, 5, Len(bytes)))
         IN  IF ~from_utf8_ok(resp) \/ ~from_utf8_ok(data)
             THEN Resp("Panic", <<>>, U32Zero)
             ELSE from_parts(resp, data)

\* ------------------------------------------------------------- commands
Cmd(tag, a) == [tag |-> tag, arg |-> a]

HexDigits == <<48, 49, 50, 51, 52, 53, 54, 55, 56, 57, 97, 98, 99, 100, 101, 102>>
\* {:04x} of one 16-bit half
Hex4(n) ==
    << HexDigits[(n \div 4096) + 1], HexDigits[((n \div 256) % 16) + 1],
       HexDigits[((n \div 16) % 16) + 1], HexDigits[(n % 16) + 1] >>
\* mutant of Hex8: {size:04x} of the low half only
Hex8_low(size) == Hex4(size[2])
\* {size:08x}
Hex8(size) == Hex4(size[1]) \o Hex4(size[2])

\* impl Display for FastBootCommand
fmt(cmd) ==
    CASE cmd.tag = "GetVar"   -> <<103, 101, 116, 118, 97, 114, 58>> \o cmd.arg
      [] cmd.tag = "Download" -> <<100, 111, 119, 110, 108, 111, 97, 100, 58>> \o Hex8(cmd.arg)
      [] cmd.tag = "Verify"   -> <<118, 101, 114, 105, 116, 121, 58>> \o cmd.arg
      [] cmd.tag = "Flash"    -> <<102, 108, 97, 115, 104, 58>> \o cmd.arg
      [] cmd.tag = "Erase"    -> <<101, 114, 97, 115, 101, 58>> \o cmd.arg
      [] cmd.tag = "Boot"     -> <<98, 111, 111, 116>>
      [] cmd.tag = "Continue" -> <<99, 111, 110, 116, 105, 110, 117, 101>>
      [] cmd.tag = "Reboot"   -> <<114, 101, 98, 111, 111, 116>>
      [] cmd.tag = "RebootBootloader" ->
           <<114, 101, 98, 111, 111, 116, 45, 98, 111, 111, 116, 108, 111, 97, 100, 101, 114>>
      [] cmd.tag = "Powerdown" -> <<112, 111, 119, 101, 114, 100, 111, 119, 110>>

\* the strings the callers in main.rs pass and compare against
VersionBootloader ==
    <<118, 101, 114, 115, 105, 111, 110, 45, 98, 111, 111, 116, 108, 111, 97, 100, 101, 114>>
PartitionTypeOp2 ==
    <<112, 97, 114, 116, 105, 116, 105, 111, 110, 45, 116, 121, 112, 101, 58, 111, 112, 50>>
UBootStr == <<85, 45, 66, 111, 111, 116>>
RawStr == <<114, 97, 119>>
AllStr == <<97, 108, 108>>

\* str::contains
contains(s, pat) ==
    \E i \in 0..(Len(s) - Len(pat)) : SubSeq(s, i + 1, i + Len(pat)) = pat

\* --------------------------------------------------- inputs of the model
\* variable names, partition names and download sizes a client passes
VarNames == {VersionBootloader, PartitionTypeOp2}
Targets == {<<111, 112, 50>>}
Sizes == {<<0, 16>>, <<18, 13398>>}

\* payloads of the Info frames the modelled device sends:
\* "a:b:c", " a:b :d " (two colons each, the same key once split at the last
\* colon and trimmed) and "x" (no colon)
InfoPayloads ==
    {<<97, 58, 98, 58, 99>>, <<32, 97, 58, 98, 32, 58, 100, 32>>, <<120>>}

\* frames the modelled device can answer with: the empty transfer, a short
\* frame, every tag, a payload cut by a null, a DATA length that is not hex,
\* an unknown tag and a payload that is not UTF-8
Frames ==
    { <<>>,
      <<85, 78>>,
      <<85, 78, 75, 78>>,
      OKAY,
      OKAY \o RawStr,
      OKAY \o UBootStr \o <<0, 120>>,
      OKAY \o <<255>>,
      FAIL \o <<110, 111>>,
      DATA \o <<49, 48>>,
      DATA \o <<122, 122>> }
    \cup { INFO \o p : p \in InfoPayloads }

\* ---------------------------------------------------------------- state
VARIABLES
    caller,      \* who drives the session: none, api, detect_device_mode, boot_uboot
    cstep,       \* position inside detect_device_mode / boot_uboot
    cres,        \* what the caller returned
    nops,        \* operations the API client has issued on this session
    buf,         \* Fastboot.buf, the scratch buffer
    outstanding, \* a command frame was written and no Okay/Fail read since
    overlap,     \* a command frame was written while another was outstanding
    wire,        \* boot_uboot: what the transport of its session was handed, in order
    op,          \* the session operation in progress
    arg,         \* its argument
    pc,          \* its position: idle, send, read, s_read, s_await, s_drain, s_ret, done, panicked
    result,      \* its return value
    info,        \* download: let mut info: Option<String>
    vars,        \* get_all_vars: let mut vars = HashMap::new()
    lastResp,    \* what the latest read_response decoded (NoResp when read_in failed)
    nReads,      \* read_in calls made by the operation
    infoLog,     \* payloads of the Info frames the operation has read, in order
    wrote,       \* command frames handed to write_out (successfully) by the operation
    nWrites,     \* write_out calls made by the operation
    written,     \* do_download: let written
    sres,        \* what write_out_stream returned
    chunk,       \* write_out_stream: sz of the chunk read and not yet submitted
    queued,      \* write_out_stream: VecDeque<JsFuture>, front first
    total,       \* write_out_stream: let mut total
    nSub,        \* transfers submitted by this write_out_stream
    nChunks,     \* non-empty reads the source has served
    srcBytes,    \* bytes the source has yielded
    reported,    \* sum of the byte counts the awaited transfers reported
    exact,       \* every awaited transfer reported exactly the bytes it was given
    awaited,     \* ids of the transfers awaited, in the order of the awaits
    rejected,    \* an awaited transfer was rejected by the transport
    outOfOrder,  \* a transfer settled while an older one was still pending
    rxBytes,     \* codec: the bytes handed to FastBootResponse::from_bytes
    rxResp,      \* codec: what from_bytes returned for rxBytes
    txSize,      \* codec: the size of a FastBootCommand::Download
    txCmd        \* codec: the Display output of Download(txSize)

callerVars == <<caller, cstep, cres, nops>>
sessVars == <<buf, outstanding, overlap, wire>>
opVars == <<op, arg, pc, result, info, vars, lastResp, nReads, infoLog, wrote, nWrites,
           written, sres>>
streamVars == <<chunk, queued, total, nSub, nChunks, srcBytes, reported, exact, awaited,
                rejected, outOfOrder>>
codecVars == <<rxBytes, rxResp, txSize, txCmd>>
allVars == <<callerVars, sessVars, opVars, streamVars, codecVars>>

\* Result<_, FastBootError> of an operation; some tells Some from None for the
\* Option<String> of download, perr is the FastBootResponseParseError
Res(kind, str, some, perr) == [kind |-> kind, str |-> str, some |-> some, perr |-> perr]
NoResult == Res("None", <<>>, FALSE, "")
Ok(str, some) == Res("Ok", str, some, "")
Transfer == Res("Transfer", <<>>, FALSE, "")
FastbootFailed(fail) == Res("FastbootFailed", fail, FALSE, "")
FastbootUnexpectedReply == Res("FastbootUnexpectedReply", <<>>, FALSE, "")
FastbootParseError(e) == Res("FastbootParseError", <<>>, FALSE, e)

None == [some |-> FALSE, str |-> <<>>]
Some(s) == [some |-> TRUE, str |-> s]
EmptyMap == [k \in {} |-> <<>>]
NoStream == [kind |-> "None", val |-> 0]

\* what a transport is handed: write_out(frame), or write_out_stream(reader)
WriteOut(frame) == [call |-> "write_out", frame |-> frame]
WriteOutStream == [call |-> "write_out_stream", frame |-> <<>>]

\* Fastboot::new : buf = Vec::with_capacity(64), nothing written yet
NewSession ==
    /\ buf = <<>>
    /\ outstanding = FALSE
    /\ overlap = FALSE
    /\ wire = <<>>

StreamLocalsInit ==
    /\ chunk = 0
    /\ queued = <<>>
    /\ total = 0
    /\ nSub = 0
    /\ nChunks = 0
    /\ srcBytes = 0
    /\ reported = 0
    /\ exact = TRUE
    /\ awaited = <<>>
    /\ rejected = FALSE
    /\ outOfOrder = FALSE

\* no codec call has been made
CodecIdle ==
    /\ rxBytes = <<>>
    /\ rxResp = NoResp
    /\ txSize = U32Zero
    /\ txCmd = <<>>

OpIdle ==
    /\ op = "none"
    /\ arg = <<>>
    /\ pc = "idle"
    /\ result = NoResult
    /\ info = None
    /\ vars = EmptyMap
    /\ lastResp = NoResp
    /\ nReads = 0
    /\ infoLog = <<>>
    /\ wrote = <<>>
    /\ nWrites = 0
    /\ written = 0
    /\ sres = NoStream

Init ==
    /\ caller = "none"
    /\ cstep = "none"
    /\ cres = "none"
    /\ nops = 0
    /\ NewSession
    /\ OpIdle
    /\ StreamLocalsInit
    /\ CodecIdle

\* ------------------------------------------------------ session helpers
\* the command each operation sends (do_download sends none)
CmdOf(o, a) ==
    CASE o = "get_var"           -> Cmd("GetVar", a)
      [] o = "download"          -> Cmd("Download", a)
      [] o = "flash"             -> Cmd("Flash", a)
      [] o = "erase"             -> Cmd("Erase", a)
      [] o = "boot"              -> Cmd("Boot", <<>>)
      [] o = "reboot"            -> Cmd("Reboot", <<>>)
      [] o = "reboot_bootloader" -> Cmd("RebootBootloader", <<>>)
      [] o = "get_all_vars"      -> Cmd("GetVar", AllStr)

\* operations whose response loop is handle_responses
HandleOps ==
    {"get_var", "do_download", "flash", "erase", "boot", "reboot", "reboot_bootloader"}
\* operations that map the Okay payload to ()
UnitOps == {"flash", "erase", "boot", "reboot", "reboot_bootloader"}

\* Vec::resize(n, 0)
resize(b, n) ==
    IF Len(b) >= n THEN SubSeq(b, 1, n) ELSE b \o [i \in 1..(n - Len(b)) |-> 0]

\* read_in: u8arr.copy_to(&mut buf[0..data.byte_length()])
copy_to(b, frame) == [i \in 1..Len(b) |-> IF i <= Len(frame) THEN frame[i] ELSE b[i]]

\* The bytes of the buffer past the frame just read are left over from earlier
\* use and the code never reads them: the model keeps them as the value -1,
\* which is no byte, instead of their history.
stale(b, num) == [i \in 1..Len(b) |-> IF i <= num THEN b[i] ELSE -1]

\* mutant of slice_to: the whole buffer, &self.buf[..]
slice_all(b, num) == b

\* &self.buf[..num]
slice_to(b, num) == SubSeq(b, 1, num)

\* read_response, given the frame the transport delivers:
\* the buffer afterwards and the decoded response
read_response(b, frame) ==
    LET resized == resize(b, BufSize)
        filled  == copy_to(resized, frame)
        num     == Len(frame)
    IN  [buf |-> stale(filled, num), resp |-> from_bytes(slice_to(filled, num))]

\* mutant of handle_match: an Info frame ends the loop with its payload
handle_match_info_ends(resp) ==
    CASE resp.kind = "Info" -> Ok(resp.data, TRUE)
      [] resp.kind = "Data" -> FastbootUnexpectedReply
      [] resp.kind = "Okay" -> Ok(resp.data, TRUE)
      [] resp.kind = "Fail" -> FastbootFailed(resp.data)
      [] OTHER              -> FastbootParseError(resp.kind)

\* mutant of handle_match: a Data frame is skipped like an Info frame
handle_match_data_skipped(resp) ==
    CASE resp.kind = "Info" -> NoResult
      [] resp.kind = "Data" -> NoResult
      [] resp.kind = "Okay" -> Ok(resp.data, TRUE)
      [] resp.kind = "Fail" -> FastbootFailed(resp.data)
      [] OTHER              -> FastbootParseError(resp.kind)

\* the match of handle_responses: NoResult means loop again
handle_match(resp) ==
    CASE resp.kind = "Info" -> NoResult
      [] resp.kind = "Data" -> FastbootUnexpectedReply
      [] resp.kind = "Okay" -> Ok(resp.data, TRUE)
      [] resp.kind = "Fail" -> FastbootFailed(resp.data)
      [] OTHER              -> FastbootParseError(resp.kind)

\* mutant of accumulate: the latest Info payload replaces the earlier ones
accumulate_last(inf, i) == Some(i)

\* info = Some(s + &i) / Some(i)
accumulate(inf, i) == IF inf.some THEN Some(inf.str \o i) ELSE Some(i)

\* mutant of download_match: Fail is reported as an unexpected reply
download_match_fail_unexpected(resp, inf) ==
    CASE resp.kind = "Info" -> [ret |-> NoResult, info |-> accumulate(inf, resp.data)]
      [] resp.kind = "Data" -> [ret |-> Ok(inf.str, inf.some), info |-> inf]
      [] resp.kind = "Okay" -> [ret |-> FastbootUnexpectedReply, info |-> inf]
      [] resp.kind = "Fail" -> [ret |-> FastbootUnexpectedReply, info |-> inf]
      [] OTHER              -> [ret |-> FastbootParseError(resp.kind), info |-> inf]

\* mutant of download_match: Okay ends the announcement like Data
download_match_okay_accepted(resp, inf) ==
    CASE resp.kind = "Info" -> [ret |-> NoResult, info |-> accumulate(inf, resp.data)]
      [] resp.kind = "Data" -> [ret |-> Ok(inf.str, inf.some), info |-> inf]
      [] resp.kind = "Okay" -> [ret |-> Ok(inf.str, inf.some), info |-> inf]
      [] resp.kind = "Fail" -> [ret |-> FastbootFailed(resp.data), info |-> inf]
      [] OTHER              -> [ret |-> FastbootParseError(resp.kind), info |-> inf]

\* the match of download: the result (NoResult: loop again) and the new info
download_match(resp, inf) ==
    CASE resp.kind = "Info" -> [ret |-> NoResult, info |-> accumulate(inf, resp.data)]
      [] resp.kind = "Data" -> [ret |-> Ok(inf.str, inf.some), info |-> inf]
      [] resp.kind = "Okay" -> [ret |-> FastbootUnexpectedReply, info |-> inf]
      [] resp.kind = "Fail" -> [ret |-> FastbootFailed(resp.data), info |-> inf]
      [] OTHER              -> [ret |-> FastbootParseError(resp.kind), info |-> inf]

\* mutant of rsplit_once: the split is at the first colon (split_once)
split_once(s) ==
    LET colons == {i \in 1..Len(s) : s[i] = 58}
    IN  IF colons = {} THEN [some |-> FALSE, key |-> <<>>, value |-> <<>>]
        ELSE LET at == SetMin(colons)
             IN  [some |-> TRUE, key |-> SubSeq(s, 1, at - 1),
                  value |-> SubSeq(s, at + 1, Len(s))]

\* str::rsplit_once(':')
rsplit_once(s) ==
    LET colons == {i \in 1..Len(s) : s[i] = 58}
    IN  IF colons = {} THEN [some |-> FALSE, key |-> <<>>, value |-> <<>>]
        ELSE LET at == SetMax(colons)
             IN  [some |-> TRUE, key |-> SubSeq(s, 1, at - 1),
                  value |-> SubSeq(s, at + 1, Len(s))]

\* str::trim (the ASCII white space)
IsSpace(b) == b \in {9, 10, 11, 12, 13, 32}
trim(s) ==
    LET keep == {i \in 1..Len(s) : ~IsSpace(s[i])}
    IN  IF keep = {} THEN <<>> ELSE SubSeq(s, SetMin(keep), SetMax(keep))

\* HashMap::insert
insert(m, k, v) == [x \in (DOMAIN m) \cup {k} |-> IF x = k THEN v ELSE m[x]]

\* the match of get_all_vars: the result (NoResult: loop again) and the new map
vars_match(resp, m) ==
    CASE resp.kind = "Info" ->
           LET kv == rsplit_once(resp.data)
           IN  [ret |-> NoResult,
                vars |-> IF kv.some THEN insert(m, trim(kv.key), trim(kv.value)) ELSE m]
      [] resp.kind = "Data" -> [ret |-> FastbootUnexpectedReply, vars |-> m]
      [] resp.kind = "Okay" -> [ret |-> Ok(<<>>, TRUE), vars |-> m]
      [] resp.kind = "Fail" -> [ret |-> FastbootFailed(resp.data), vars |-> m]
      [] OTHER              -> [ret |-> FastbootParseError(resp.kind), vars |-> m]

\* a terminal response ends the command that was outstanding
IsTerminal(resp) == resp.kind \in {"Okay", "Fail"}

\* the device sends at most MaxInfo Info frames inside one operation
MaySend(frame) == from_bytes(frame).kind = "Info" => Len(infoLog) < MaxInfo

\* -------------------------------------------------- starting an operation
Begin(o, a, first) ==
    /\ op' = o
    /\ arg' = a
    /\ pc' = first
    /\ result' = NoResult
    /\ info' = None
    /\ vars' = EmptyMap
    /\ lastResp' = NoResp
    /\ nReads' = 0
    /\ infoLog' = <<>>
    /\ wrote' = <<>>
    /\ nWrites' = 0
    /\ written' = 0
    /\ sres' = NoStream
    /\ chunk' = 0
    /\ queued' = <<>>
    /\ total' = 0
    /\ nSub' = 0
    /\ nChunks' = 0
    /\ srcBytes' = 0
    /\ reported' = 0
    /\ exact' = TRUE
    /\ awaited' = <<>>
    /\ rejected' = FALSE
    /\ outOfOrder' = FALSE
    /\ UNCHANGED codecVars

\* a client of the public API calls the next operation on its session
ApiCall(o, a, first) ==
    /\ caller = "api"
    /\ pc \in {"idle", "done"}
    /\ nops < MaxOps
    /\ nops' = nops + 1
    /\ Begin(o, a, first)
    /\ UNCHANGED <<caller, cstep, cres, sessVars>>

get_var == \E v \in VarNames : ApiCall("get_var", v, "send")
download == \E size \in Sizes : ApiCall("download", size, "send")
\* the modelled client streams the payload where the protocol has it: right
\* after download returned Ok on a Data frame
do_download ==
    /\ op = "download"
    /\ result.kind = "Ok"
    /\ ApiCall("do_download", <<>>, "s_read")
flash == \E target \in Targets : ApiCall("flash", target, "send")
erase == \E target \in Targets : ApiCall("erase", target, "send")
boot == ApiCall("boot", <<>>, "send")
reboot == ApiCall("reboot", <<>>, "send")
reboot_bootloader == ApiCall("reboot_bootloader", <<>>, "send")
\* mutant of get_all_vars: the loop is entered without send_command
get_all_vars_unsent == ApiCall("get_all_vars", <<>>, "read")
get_all_vars == ApiCall("get_all_vars", <<>>, "send")

\* ------------------------------------------------------- session steps
\* mutant of send_command: the error of write_out is dropped and the
\* operation goes on to read
send_command_unchecked ==
    /\ pc = "send"
    /\ buf' = fmt(CmdOf(op, arg))
    /\ nWrites' = nWrites + 1
    /\ \/ /\ wrote' = Append(wrote, buf')
          /\ overlap' = (overlap \/ outstanding)
          /\ wire' = IF caller = "boot_uboot" THEN Append(wire, WriteOut(buf')) ELSE wire
          /\ outstanding' = TRUE
       \/ UNCHANGED <<wrote, overlap, outstanding, wire>>
    /\ pc' = "read"
    /\ UNCHANGED <<codecVars, callerVars, op, arg, result, info, vars, lastResp, nReads, infoLog, written,
                   sres, streamVars>>

\* send_command: format into buf, await write_out
send_command ==
    /\ pc = "send"
    /\ buf' = fmt(CmdOf(op, arg))
    /\ nWrites' = nWrites + 1
    /\ \/ /\ wrote' = Append(wrote, buf')
          /\ overlap' = (overlap \/ outstanding)
          /\ wire' = IF caller = "boot_uboot" THEN Append(wire, WriteOut(buf')) ELSE wire
          /\ outstanding' = TRUE
          /\ pc' = "read"
          /\ UNCHANGED result
       \/ /\ result' = Transfer
          /\ pc' = "done"
          /\ UNCHANGED <<wrote, overlap, outstanding, wire>>
    /\ UNCHANGED <<codecVars, callerVars, op, arg, info, vars, lastResp, nReads, infoLog, written, sres,
                   streamVars>>

\* read_response when read_in fails
ReadFails ==
    /\ buf' = resize(buf, BufSize)
    /\ nReads' = nReads + 1
    /\ lastResp' = NoResp
    /\ result' = Transfer
    /\ pc' = "done"
    /\ UNCHANGED <<codecVars, callerVars, outstanding, overlap, wire, op, arg, infoLog,
                   wrote, nWrites, written, sres, streamVars>>

\* read_response when read_in delivers frame, then the caller's match gives ret
ReadGives(frame, r, ret) ==
    /\ buf' = r.buf
    /\ nReads' = nReads + 1
    /\ infoLog' = IF r.resp.kind = "Info" THEN Append(infoLog, r.resp.data) ELSE infoLog
    /\ lastResp' = r.resp
    /\ outstanding' = IF IsTerminal(r.resp) THEN FALSE ELSE outstanding
    /\ IF r.resp.kind = "Panic"
         THEN pc' = "panicked" /\ UNCHANGED result
         ELSE IF ret = NoResult
           THEN UNCHANGED <<pc, result>>
           ELSE pc' = "done" /\ result' = ret
    /\ UNCHANGED <<codecVars, callerVars, overlap, wire, op, arg, wrote, nWrites, written, sres, streamVars>>

\* one turn of the loop of handle_responses
handle_responses ==
    /\ pc = "read"
    /\ op \in HandleOps
    /\ \/ ReadFails
       \/ \E frame \in Frames :
            /\ MaySend(frame)
            /\ LET r == read_response(buf, frame)
                   m == handle_match(r.resp)
               IN  ReadGives(frame, r,
                     IF op \in UnitOps /\ m.kind = "Ok" THEN Ok(<<>>, FALSE) ELSE m)
    /\ UNCHANGED <<info, vars>>

\* one turn of the loop of download
download_loop ==
    /\ pc = "read"
    /\ op = "download"
    /\ \/ ReadFails /\ UNCHANGED info
       \/ \E frame \in Frames :
            /\ MaySend(frame)
            /\ LET r == read_response(buf, frame)
                   m == download_match(r.resp, info)
               IN  ReadGives(frame, r, m.ret) /\ info' = m.info
    /\ UNCHANGED vars

\* one turn of the loop of get_all_vars
get_all_vars_loop ==
    /\ pc = "read"
    /\ op = "get_all_vars"
    /\ \/ ReadFails /\ UNCHANGED vars
       \/ \E frame \in Frames :
            /\ MaySend(frame)
            /\ LET r == read_response(buf, frame)
                   m == vars_match(r.resp, vars)
               IN  ReadGives(frame, r, m.ret) /\ vars' = m.vars
    /\ UNCHANGED info

\* ------------------------------------------------- the pipelined uploader
\* a transfer in flight: its id (the order of submission), the bytes handed
\* to transfer_out and whether its promise has settled
Xfer(id, sz) == [id |-> id, sz |-> sz, done |-> FALSE]

\* VecDeque::push_front
push_front(q, x) == <<x>> \o q
\* mutant of pop_back: the newest transfer is taken
pop_front(q) == [item |-> q[1], rest |-> SubSeq(q, 2, Len(q))]

\* mutant of pop_back: the transfer taken is the newest one that has settled,
\* the oldest one when none has
pop_settled(q) ==
    LET settled == {i \in 1..Len(q) : q[i].done}
        at == IF settled = {} THEN Len(q) ELSE SetMin(settled)
    IN  [item |-> q[at], rest |-> SubSeq(q, 1, at - 1) \o SubSeq(q, at + 1, Len(q))]

\* VecDeque::pop_back: the element taken and what is left
pop_back(q) == [item |-> q[Len(q)], rest |-> SubSeq(q, 1, Len(q) - 1)]

\* mutant of is_empty: the last transfer in flight is left alone
is_empty_but_one(q) == Len(q) <= 1

\* queued.is_empty()
is_empty(q) == q = <<>>

\* mutant of await_failed: the rejection is not propagated
await_failed_never(bytes_written) == FALSE

\* `.await.map_err(..)?` on a transfer: a rejected promise (-1) is an error
await_failed(bytes_written) == bytes_written < 0

\* mutant of window_full: any transfer in flight is awaited before the next
\* submission
window_full_serial(q) == Len(q) > 0

\* mutant of window_full: the window test off by one
window_full_late(q) == Len(q) > WindowLimit + 1

\* if queued.len() > 3
window_full(q) == Len(q) > WindowLimit

\* mutant of add_total: `=` for `+=`
add_total_assign(t, bytes_written) == bytes_written

\* total += bytes_written
add_total(t, bytes_written) == t + bytes_written

\* what a settled transfer of sz bytes resolves to: rejected (-1), or the
\* bytes_written it reports, all of sz or one byte short
Outcomes(sz) == {-1, sz, sz - 1}

\* mutant of Submit: the whole buffer is handed over, not only &buf[..sz]
Submit_whole(q, sz) ==
    \/ /\ sres' = [kind |-> "Err", val |-> 0]
       /\ pc' = "s_ret"
       /\ queued' = q
       /\ UNCHANGED nSub
    \/ /\ queued' = push_front(q, Xfer(nSub + 1, output_size))
       /\ nSub' = nSub + 1
       /\ pc' = "s_read"
       /\ UNCHANGED sres

\* queued.push_front(JsFuture::from(transfer_out_with_u8_slice(..)?)): the call
\* either throws, which returns the transport error, or the transfer is queued
Submit(q, sz) ==
    \/ /\ sres' = [kind |-> "Err", val |-> 0]
       /\ pc' = "s_ret"
       /\ queued' = q
       /\ UNCHANGED nSub
    \/ /\ queued' = push_front(q, Xfer(nSub + 1, sz))
       /\ nSub' = nSub + 1
       /\ pc' = "s_read"
       /\ UNCHANGED sres

\* read.read(&mut buf).await at the top of the loop, then what follows up to
\* the next await
stream_read ==
    /\ pc = "s_read"
    /\ \/ /\ sres' = [kind |-> "Err", val |-> 0]
          /\ pc' = "s_ret"
          /\ UNCHANGED <<chunk, queued, nSub, nChunks, srcBytes>>
       \/ /\ pc' = "s_drain"
          /\ UNCHANGED <<sres, chunk, queued, nSub, nChunks, srcBytes>>
       \/ \E sz \in 1..output_size :
            /\ nChunks < MaxChunks
            /\ nChunks' = nChunks + 1
            /\ srcBytes' = srcBytes + sz
            /\ IF window_full(queued)
                 THEN /\ pc' = "s_await"
                      /\ chunk' = sz
                      /\ UNCHANGED <<sres, queued, nSub>>
                 ELSE /\ Submit(queued, sz)
                      /\ UNCHANGED chunk
    /\ UNCHANGED <<codecVars, callerVars, sessVars, op, arg, result, info, vars, lastResp, nReads,
                   infoLog, wrote, nWrites, written, total, reported, exact, awaited, rejected,
                   outOfOrder>>

\* queued.pop_back().unwrap().await inside the loop, then the submission
stream_await ==
    /\ pc = "s_await"
    /\ LET p == pop_back(queued) IN
         /\ p.item.done
         /\ \E bw \in Outcomes(p.item.sz) :
              /\ awaited' = Append(awaited, p.item.id)
              /\ rejected' = (bw < 0)
              /\ IF await_failed(bw)
                   THEN /\ sres' = [kind |-> "Err", val |-> 0]
                        /\ pc' = "s_ret"
                        /\ queued' = p.rest
                        /\ UNCHANGED <<total, reported, exact, nSub, chunk>>
                   ELSE /\ total' = add_total(total, bw)
                        /\ reported' = reported + bw
                        /\ exact' = (exact /\ bw = p.item.sz)
                        /\ chunk' = 0
                        /\ Submit(p.rest, chunk)
    /\ UNCHANGED <<codecVars, callerVars, sessVars, op, arg, result, info, vars, lastResp, nReads,
                   infoLog, wrote, nWrites, written, nChunks, srcBytes, outOfOrder>>

\* mutant of stream_drain: the loop waits for the queue to empty and awaits
\* nothing
stream_drain_idle ==
    /\ pc = "s_drain"
    /\ is_empty(queued)
    /\ sres' = [kind |-> "Ok", val |-> total]
    /\ pc' = "s_ret"
    /\ UNCHANGED <<codecVars, callerVars, sessVars, op, arg, result, info, vars, lastResp, nReads,
                   infoLog, wrote, nWrites, written, chunk, queued, total, nSub, nChunks, srcBytes,
                   reported, exact, awaited, rejected, outOfOrder>>

\* while !queued.is_empty() { total += queued.pop_back().unwrap().await? }; Ok(total)
stream_drain ==
    /\ pc = "s_drain"
    /\ IF is_empty(queued)
         THEN /\ sres' = [kind |-> "Ok", val |-> total]
              /\ pc' = "s_ret"
              /\ UNCHANGED <<queued, total, reported, exact, awaited, rejected>>
         ELSE LET p == pop_back(queued) IN
              /\ p.item.done
              /\ queued' = p.rest
              /\ awaited' = Append(awaited, p.item.id)
              /\ \E bw \in Outcomes(p.item.sz) :
                   /\ rejected' = (bw < 0)
                   /\ IF await_failed(bw)
                     THEN /\ sres' = [kind |-> "Err", val |-> 0]
                          /\ pc' = "s_ret"
                          /\ UNCHANGED <<total, reported, exact>>
                     ELSE /\ total' = add_total(total, bw)
                          /\ reported' = reported + bw
                          /\ exact' = (exact /\ bw = p.item.sz)
                          /\ UNCHANGED <<pc, sres>>
    /\ UNCHANGED <<codecVars, callerVars, sessVars, op, arg, result, info, vars, lastResp, nReads,
                   infoLog, wrote, nWrites, written, chunk, nSub, nChunks, srcBytes, outOfOrder>>

\* the device settles one of the transfers in flight, in any order
transfer_complete ==
    /\ pc \in {"s_read", "s_await", "s_drain"}
    /\ \E i \in 1..Len(queued) :
         /\ ~queued[i].done
         /\ queued' = [queued EXCEPT ![i].done = TRUE]
         /\ outOfOrder' = (outOfOrder \/ \E j \in (i + 1)..Len(queued) : ~queued[j].done)
    /\ UNCHANGED <<codecVars, callerVars, sessVars, opVars, chunk, total, nSub, nChunks, srcBytes,
                   reported, exact, awaited, rejected>>

\* mutant of do_download_written: the error of write_out_stream is dropped
do_download_written_unchecked ==
    /\ pc = "s_ret"
    /\ written' = sres.val
    /\ pc' = "read"
    /\ chunk' = 0
    /\ queued' = <<>>
    /\ total' = 0
    /\ nSub' = 0
    /\ nChunks' = 0
    /\ srcBytes' = 0
    /\ reported' = 0
    /\ exact' = TRUE
    /\ awaited' = <<>>
    /\ rejected' = FALSE
    /\ outOfOrder' = FALSE
    /\ UNCHANGED <<codecVars, callerVars, sessVars, op, arg, result, info, vars, lastResp, nReads,
                   infoLog, wrote, nWrites, sres>>

\* mutant of do_download_written: a total other than the 0x10 bytes of the
\* device's DATA frame is refused (DownloadError::IncorrectDataLength)
do_download_written_validated ==
    /\ pc = "s_ret"
    /\ IF sres.kind = "Err" \/ sres.val # 16
         THEN /\ result' = Transfer
              /\ pc' = "done"
              /\ UNCHANGED written
         ELSE /\ written' = sres.val
              /\ pc' = "read"
              /\ UNCHANGED result
    /\ chunk' = 0
    /\ queued' = <<>>
    /\ total' = 0
    /\ nSub' = 0
    /\ nChunks' = 0
    /\ srcBytes' = 0
    /\ reported' = 0
    /\ exact' = TRUE
    /\ awaited' = <<>>
    /\ rejected' = FALSE
    /\ outOfOrder' = FALSE
    /\ UNCHANGED <<codecVars, callerVars, sessVars, op, arg, info, vars, lastResp, nReads, infoLog,
                   wrote, nWrites, sres>>

\* do_download after write_out_stream returned: `?`, then handle_responses
do_download_written ==
    /\ pc = "s_ret"
    /\ IF sres.kind = "Err"
         THEN /\ result' = Transfer
              /\ pc' = "done"
              /\ UNCHANGED written
         ELSE /\ written' = sres.val
              /\ pc' = "read"
              /\ UNCHANGED result
    /\ chunk' = 0
    /\ queued' = <<>>
    /\ total' = 0
    /\ nSub' = 0
    /\ nChunks' = 0
    /\ srcBytes' = 0
    /\ reported' = 0
    /\ exact' = TRUE
    /\ awaited' = <<>>
    /\ rejected' = FALSE
    /\ outOfOrder' = FALSE
    /\ UNCHANGED <<codecVars, callerVars, sessVars, op, arg, info, vars, lastResp, nReads, infoLog,
                   wrote, nWrites, sres>>

\* ---------------------------------------------------- callers (main.rs)
\* a client creates a session: Fastboot::new(ops)
Fastboot_new ==
    /\ caller = "none"
    /\ caller' = "api"
    /\ UNCHANGED <<cstep, cres, nops, sessVars, opVars, streamVars, codecVars>>

\* the caller returned and its session is dropped
Reset ==
    /\ caller' = "none"
    /\ cstep' = "none"
    /\ cres' = "none"
    /\ nops' = 0
    /\ buf' = <<>>
    /\ outstanding' = FALSE
    /\ overlap' = FALSE
    /\ wire' = <<>>
    /\ Begin("none", <<>>, "idle")

drop_session ==
    /\ \/ caller = "api" /\ pc \in {"idle", "done"}
       \/ caller = "detect_device_mode" /\ cstep = "ret" /\ cres # "VendorFastboot"
       \/ caller = "boot_uboot" /\ cstep = "ret"
    /\ Reset

\* detect_device_mode: a new session, then get_var("version-bootloader")
detect_device_mode ==
    /\ caller = "none"
    /\ caller' = "detect_device_mode"
    /\ \/ /\ cstep' = "ret"
          /\ cres' = "Err"
          /\ UNCHANGED <<opVars, streamVars, codecVars>>
       \/ /\ cstep' = "get_var1"
          /\ Begin("get_var", VersionBootloader, "send")
          /\ UNCHANGED cres
    /\ UNCHANGED <<nops, sessVars>>

\* .is_ok_and(|v| v.contains("U-Boot")), else get_var("partition-type:op2")
detect_version ==
    /\ caller = "detect_device_mode"
    /\ cstep = "get_var1"
    /\ pc = "done"
    /\ IF result.kind = "Ok" /\ contains(result.str, UBootStr)
         THEN /\ cres' = "UBoot"
              /\ cstep' = "ret"
              /\ UNCHANGED <<opVars, streamVars, codecVars>>
         ELSE /\ cstep' = "get_var2"
              /\ Begin("get_var", PartitionTypeOp2, "send")
              /\ UNCHANGED cres
    /\ UNCHANGED <<caller, nops, sessVars>>

\* .is_ok_and(|v| v == "raw"), else Err(anyhow!("unknown"))
detect_partition ==
    /\ caller = "detect_device_mode"
    /\ cstep = "get_var2"
    /\ pc = "done"
    /\ cres' = IF result.kind = "Ok" /\ result.str = RawStr THEN "VendorFastboot" ELSE "Err"
    /\ cstep' = "ret"
    /\ UNCHANGED <<caller, nops, sessVars, opVars, streamVars, codecVars>>

\* boot: DeviceMode::VendorFastboot => boot_uboot(device): a new session, the
\* fetch of the image, then download(size)
boot_uboot ==
    /\ caller = "detect_device_mode"
    /\ cstep = "ret"
    /\ cres = "VendorFastboot"
    /\ caller' = "boot_uboot"
    /\ buf' = <<>>
    /\ outstanding' = FALSE
    /\ overlap' = FALSE
    /\ wire' = <<>>
    /\ \/ /\ cstep' = "ret"
          /\ cres' = "Err"
          /\ Begin("none", <<>>, "idle")
       \/ \E size \in Sizes :
            /\ cstep' = "download"
            /\ cres' = "none"
            /\ Begin("download", size, "send")
    /\ UNCHANGED nops

\* let info = fastboot.download(size).await?; then do_download
boot_uboot_download ==
    /\ caller = "boot_uboot"
    /\ cstep = "download"
    /\ pc = "done"
    /\ IF result.kind = "Ok"
         THEN /\ cstep' = "do_download"
              /\ Begin("do_download", <<>>, "s_read")
              /\ wire' = Append(wire, WriteOutStream)
              /\ UNCHANGED cres
         ELSE /\ cstep' = "ret"
              /\ cres' = "Err"
              /\ UNCHANGED <<opVars, streamVars, codecVars, wire>>
    /\ UNCHANGED <<caller, nops, buf, outstanding, overlap>>

\* mutant of boot_uboot_do_download: the result of do_download is not looked at
boot_uboot_do_download_unchecked ==
    /\ caller = "boot_uboot"
    /\ cstep = "do_download"
    /\ pc = "done"
    /\ cstep' = "boot"
    /\ Begin("boot", <<>>, "send")
    /\ UNCHANGED <<cres, caller, nops, sessVars>>

\* let info = fastboot.do_download(..).await?; then boot
boot_uboot_do_download ==
    /\ caller = "boot_uboot"
    /\ cstep = "do_download"
    /\ pc = "done"
    /\ IF result.kind = "Ok"
         THEN /\ cstep' = "boot"
              /\ Begin("boot", <<>>, "send")
              /\ UNCHANGED cres
         ELSE /\ cstep' = "ret"
              /\ cres' = "Err"
              /\ UNCHANGED <<opVars, streamVars, codecVars>>
    /\ UNCHANGED <<caller, nops, sessVars>>

\* Ok(fastboot.boot().await?)
boot_uboot_boot ==
    /\ caller = "boot_uboot"
    /\ cstep = "boot"
    /\ pc = "done"
    /\ cres' = IF result.kind = "Ok" THEN "Ok" ELSE "Err"
    /\ cstep' = "ret"
    /\ UNCHANGED <<caller, nops, sessVars, opVars, streamVars, codecVars>>

\* ------------------------------------------------------- specification
Next ==
    \/ Fastboot_new
    \/ get_var
    \/ download
    \/ do_download
    \/ flash
    \/ erase
    \/ boot
    \/ reboot
    \/ reboot_bootloader
    \/ get_all_vars
    \/ send_command
    \/ handle_responses
    \/ download_loop
    \/ get_all_vars_loop
    \/ stream_read
    \/ stream_await
    \/ stream_drain
    \/ transfer_complete
    \/ do_download_written
    \/ detect_device_mode
    \/ detect_version
    \/ detect_partition
    \/ boot_uboot
    \/ boot_uboot_download
    \/ boot_uboot_do_download
    \/ boot_uboot_boot
    \/ drop_session

Spec == Init /\ [][Next]_allVars

\* ---------------------------------------------------------------- claims
\* the concatenation of a sequence of strings, in order, with no separator
RECURSIVE Concat(_)
Concat(ss) == IF ss = <<>> THEN <<>> ELSE Head(ss) \o Concat(Tail(ss))

\* write_out_stream is running, or has returned and its caller not yet resumed
InStream == pc \in {"s_read", "s_await", "s_drain", "s_ret"}

\* C1: in write_out_stream the transfers submitted and not yet awaited (the
\* in-flight queue) number at most 4, the one just submitted included.
C1_WindowAtMostFour == Len(queued) <= 4

\* C1 witness: the queue holds 4 transfers again after a fifth chunk forced a drain
C1_Witness == InStream /\ Len(queued) = 4 /\ nSub >= 5 /\ Len(awaited) >= 1

\* C2: when write_out_stream returns a total, it is the sum of the byte counts
\* reported by every transfer it submitted, and when every transfer reported
\* exactly the bytes it was given it is the number of bytes the source yielded.
C2_TotalIsSumOfReports ==
    (pc = "s_ret" /\ sres.kind = "Ok") =>
        /\ Len(awaited) = nSub
        /\ sres.val = reported
        /\ (exact => sres.val = srcBytes)

\* C2 witness: five full chunks, every write exact, the total is five chunks' bytes
C2_Witness ==
    /\ pc = "s_ret"
    /\ sres.kind = "Ok"
    /\ nSub = 5
    /\ exact
    /\ sres.val = 5 * output_size

\* C3: transfers are awaited in exactly the order of their submission: the
\* k-th await is of the k-th transfer submitted, in the windowed drain and in
\* the final drain alike.
C3_FifoRetirement == \A k \in 1..Len(awaited) : awaited[k] = k

\* C3 witness: five transfers awaited, the first in the windowed drain and the
\* rest in the final drain
C3_Witness == pc = "s_ret" /\ sres.kind = "Ok" /\ Len(awaited) = 5 /\ nChunks = 5

\* C4: no command frame is written while an earlier command of the session
\* has not reached its terminal response (Okay or Fail).
C4_OneCommandOutstanding == ~overlap

\* C5: get_var writes one GetVariable command, skips every leading Info frame
\* without accumulating it, and returns the payload of the first Okay frame.
C5_GetVarReturnsOkayPayload ==
    op = "get_var" =>
        /\ (nReads > 0 => wrote = <<fmt(Cmd("GetVar", arg))>>)
        /\ (lastResp.kind = "Info" => pc = "read" /\ result = NoResult)
        /\ (lastResp.kind = "Okay" =>
              /\ pc = "done"
              /\ result = Ok(lastResp.data, TRUE)
              /\ nReads = Len(infoLog) + 1)

\* C5 witness: two Info frames, then Okay; the payload is what came before the null
C5_Witness ==
    /\ op = "get_var"
    /\ pc = "done"
    /\ Len(infoLog) = 2
    /\ lastResp.kind = "Okay"
    /\ result = Ok(UBootStr, TRUE)

\* C6: a Data frame read by get_var, flash, erase, boot, reboot,
\* reboot_bootloader, get_all_vars or the final loop of do_download ends the
\* operation with the unexpected-reply error, and no further frame is read.
C6_DataIsUnexpected ==
    (op \in HandleOps \cup {"get_all_vars"} /\ lastResp.kind = "Data") =>
        (pc = "done" /\ result = FastbootUnexpectedReply)

\* C6 witness: the final loop of do_download reads a Data frame after an Info frame
C6_Witness ==
    /\ op = "do_download"
    /\ lastResp.kind = "Data"
    /\ Len(infoLog) = 1
    /\ result.kind = "FastbootUnexpectedReply"

\* C7: in every operation a Fail(reason) frame ends the operation with the
\* device-reported failure carrying exactly that reason.
C7_FailCarriesReason ==
    lastResp.kind = "Fail" =>
        /\ pc = "done"
        /\ result = FastbootFailed(lastResp.data)
        /\ result.kind \notin {"FastbootUnexpectedReply", "Transfer", "FastbootParseError"}

\* C7 witness: download reads Fail("no") after an Info frame
C7_Witness ==
    /\ op = "download"
    /\ lastResp.kind = "Fail"
    /\ Len(infoLog) = 1
    /\ result.str = <<110, 111>>

\* C8: download writes one Download command, reads to the first Data frame and
\* returns Ok with the Info payloads read before it, concatenated in arrival
\* order with no separator, and None when there was no Info frame.
C8_DownloadReturnsInfo ==
    op = "download" =>
        /\ (nReads > 0 => wrote = <<fmt(Cmd("Download", arg))>>)
        /\ (lastResp.kind = "Info" => pc = "read" /\ result = NoResult)
        /\ (lastResp.kind = "Data" =>
              /\ pc = "done"
              /\ result = Ok(Concat(infoLog), infoLog # <<>>)
              /\ nReads = Len(infoLog) + 1)

\* C8 witness: two different Info payloads, then Data
C8_Witness ==
    /\ op = "download"
    /\ lastResp.kind = "Data"
    /\ Len(infoLog) = 2
    /\ infoLog[1] # infoLog[2]
    /\ result.kind = "Ok"

\* C9: in download an Okay frame read before any Data frame gives the
\* unexpected-reply error, whatever Info frames came before it.
C9_OkayBeforeDataIsUnexpected ==
    (op = "download" /\ lastResp.kind = "Okay") =>
        (pc = "done" /\ result = FastbootUnexpectedReply)

\* C9 witness: download reads Okay after two Info frames
C9_Witness ==
    /\ op = "download"
    /\ lastResp.kind = "Okay"
    /\ Len(infoLog) = 2
    /\ pc = "done"

\* C10: do_download returns Ok only when write_out_stream returned Ok and the
\* first frame that is not Info was Okay; no response is read before
\* write_out_stream has returned, and none at all when it returned an error.
C10_DoDownloadSuccess ==
    op = "do_download" =>
        /\ (result.kind = "Ok" => sres.kind = "Ok" /\ lastResp.kind = "Okay")
        /\ (nReads > 0 => sres.kind = "Ok")
        /\ (sres.kind = "Err" /\ pc = "done" => result = Transfer /\ nReads = 0)

\* C10 witness: the stream wrote bytes, then Okay ended do_download with success
C10_Witness ==
    /\ op = "do_download"
    /\ pc = "done"
    /\ result.kind = "Ok"
    /\ written > 0
    /\ nReads = 2

\* ------------------------------------------- the uploader on its own
\* do_download entered on a fresh session right after download(size) was
\* answered with the frame DATA10: the state in which write_out_stream starts
InitStream ==
    /\ caller = "api"
    /\ cstep = "none"
    /\ cres = "none"
    /\ nops = 2
    /\ \E size \in Sizes :
         buf = read_response(fmt(Cmd("Download", size)), DATA \o <<49, 48>>).buf
    /\ outstanding = TRUE
    /\ overlap = FALSE
    /\ wire = <<>>
    /\ op = "do_download"
    /\ arg = <<>>
    /\ pc = "s_read"
    /\ result = NoResult
    /\ info = None
    /\ vars = EmptyMap
    /\ lastResp = NoResp
    /\ nReads = 0
    /\ infoLog = <<>>
    /\ wrote = <<>>
    /\ nWrites = 0
    /\ written = 0
    /\ sres = NoStream
    /\ StreamLocalsInit
    /\ CodecIdle

\* write_out_stream up to its return into do_download
NextStream ==
    \/ stream_read
    \/ stream_await
    \/ stream_drain
    \/ transfer_complete
    \/ do_download_written

\* The uploader under its scheduling: the task driving write_out_stream is
\* resumed whenever the future it awaits is ready (the source always answers a
\* read; an awaited transfer that has settled is taken), and every transfer
\* submitted to the device eventually settles.
SpecStream ==
    /\ InitStream
    /\ [][NextStream]_allVars
    /\ WF_allVars(stream_read)
    /\ WF_allVars(stream_await)
    /\ WF_allVars(stream_drain)
    /\ WF_allVars(transfer_complete)

\* ------------------------------------------------- the codec on its own
\* longest payload of the enumerated frames
MaxLen == 3

\* byte values the enumerated payloads are made of: NUL, '+', '1', 'F', 'f',
\* 'z' and 0xFF, which no UTF-8 string contains
PayloadBytes == {0, 43, 49, 70, 102, 122, 255}

\* all byte strings of length at most n over PayloadBytes
RECURSIVE Strings(_)
Strings(n) ==
    IF n = 0 THEN {<<>>}
    ELSE LET shorter == Strings(n - 1)
         IN  shorter \cup {Append(s, b) : s \in {x \in shorter : Len(x) = n - 1},
                                         b \in PayloadBytes}

\* the first four bytes of the enumerated frames: the four tags, "UNKN", and
\* 0xFF "KAY", which is not UTF-8
CodecTags == {OKAY, INFO, FAIL, DATA, <<85, 78, 75, 78>>, <<255, 75, 65, 89>>}

\* DATA payloads longer than MaxLen: "00123456", "ffffffff", "000000010"
\* (nine digits, value 0x10), "100000000" (nine digits, above u32::MAX)
LongData ==
    { DATA \o <<48, 48, 49, 50, 51, 52, 53, 54>>,
      DATA \o <<102, 102, 102, 102, 102, 102, 102, 102>>,
      DATA \o <<48, 48, 48, 48, 48, 48, 48, 49, 48>>,
      DATA \o <<49, 48, 48, 48, 48, 48, 48, 48, 48>> }

\* byte sequences handed to from_bytes: fewer than four bytes, and every tag
\* followed by every payload
CodecFrames ==
    {<<>>, <<79>>, <<79, 75>>, <<79, 75, 65>>, <<255>>, <<68, 65, 84>>}
        \cup {tag \o s : tag \in CodecTags, s \in Strings(MaxLen)}
        \cup LongData

\* 16-bit halves of the sizes given to Download, among them 0x0012, 0x3456,
\* 0xabcd, 0xef01 and 0xffff
Halves == {0, 1, 15, 16, 18, 255, 4096, 13398, 32768, 43981, 61185, 65535}
CodecSizes == {<<hi, lo>> : hi \in Halves, lo \in Halves}

\* one input is fixed per behaviour: a frame to decode or a size to encode
InitCodec ==
    /\ caller = "none"
    /\ cstep = "none"
    /\ cres = "none"
    /\ nops = 0
    /\ NewSession
    /\ OpIdle
    /\ StreamLocalsInit
    /\ rxResp = NoResp
    /\ txCmd = <<>>
    /\ \/ rxBytes \in CodecFrames /\ txSize = U32Zero
       \/ rxBytes = <<>> /\ txSize \in CodecSizes

\* FastBootResponse::from_bytes(rxBytes)
decode ==
    /\ rxResp = NoResp
    /\ rxResp' = from_bytes(rxBytes)
    /\ UNCHANGED <<callerVars, sessVars, opVars, streamVars, rxBytes, txSize, txCmd>>

\* write!(buf, "{}", FastBootCommand::Download(txSize))
encode ==
    /\ txCmd = <<>>
    /\ txCmd' = fmt(Cmd("Download", txSize))
    /\ UNCHANGED <<callerVars, sessVars, opVars, streamVars, rxBytes, rxResp, txSize>>

NextCodec ==
    \/ decode
    \/ encode

SpecCodec == InitCodec /\ [][NextCodec]_allVars

\* a string without its leading and trailing white space
RECURSIVE StripLeft(_)
StripLeft(s) ==
    IF s # <<>> /\ Head(s) \in {9, 10, 11, 12, 13, 32} THEN StripLeft(Tail(s)) ELSE s
RECURSIVE StripRight(_)
StripRight(s) ==
    IF s # <<>> /\ s[Len(s)] \in {9, 10, 11, 12, 13, 32}
    THEN StripRight(SubSeq(s, 1, Len(s) - 1)) ELSE s
Stripped(s) == StripLeft(StripRight(s))

\* the index of the last colon of a string, 0 when it has none
RECURSIVE LastColon(_, _)
LastColon(s, i) == IF i = 0 THEN 0 ELSE IF s[i] = 58 THEN i ELSE LastColon(s, i - 1)

\* the mapping a sequence of Info payloads stands for: in order, each payload
\* with a colon gives key and value around its last colon, stripped, the later
\* of two equal keys winning; a payload without a colon gives nothing
RECURSIVE ExpectedVars(_, _)
ExpectedVars(log, m) ==
    IF log = <<>> THEN m
    ELSE LET line == Head(log)
             at   == LastColon(line, Len(line))
             key  == Stripped(SubSeq(line, 1, at - 1))
             val  == Stripped(SubSeq(line, at + 1, Len(line)))
         IN  ExpectedVars(Tail(log),
               IF at = 0 THEN m
               ELSE [x \in (DOMAIN m) \cup {key} |-> IF x = key THEN val ELSE m[x]])

\* C11: get_all_vars returns, on the first Okay frame, the mapping built from
\* the Info payloads in arrival order (split at the last colon, both sides
\* trimmed, later duplicates overwrite); a payload without a colon changes
\* nothing and does not end the operation.
C11_GetAllVarsMapping ==
    op = "get_all_vars" =>
        /\ vars = ExpectedVars(infoLog, EmptyMap)
        /\ (lastResp.kind = "Info" => pc = "read" /\ result = NoResult)
        /\ (lastResp.kind = "Okay" => pc = "done" /\ result = Ok(<<>>, TRUE))

\* C11 witness: "a:b:c" then " a:b :d ", then Okay: one key "a:b" with value "d"
C11_Witness ==
    /\ op = "get_all_vars"
    /\ pc = "done"
    /\ result.kind = "Ok"
    /\ infoLog = << <<97, 58, 98, 58, 99>>, <<32, 97, 58, 98, 32, 58, 100, 32>> >>
    /\ DOMAIN vars = { <<97, 58, 98>> }
    /\ vars[<<97, 58, 98>>] = <<100>>

\* the positions of an operation at which it still calls the transport
TransportPcs == {"send", "read", "s_read", "s_await", "s_drain", "s_ret"}
\* the fatal results of an operation
FatalKinds == {"Transfer", "FastbootParseError", "FastbootUnexpectedReply"}

\* C12: a fatal error inside a session operation (transport error of write,
\* write_stream or read, response parse failure, unexpected reply) is returned
\* at once: an operation holding an error is at its end and not at a transport
\* call, the command is written at most once, a read happens only after the
\* command write (or the stream) succeeded, and a frame that fails to parse
\* ends the operation with that parse error.
C12_FatalErrorsReturnAtOnce ==
    /\ pc \in TransportPcs => result = NoResult
    /\ result.kind \in FatalKinds => pc = "done"
    /\ Len(wrote) <= 1
    /\ (op # "do_download" /\ nReads > 0) => Len(wrote) = 1
    /\ (op = "do_download" /\ nReads > 0) => sres.kind = "Ok"
    /\ (op = "do_download" /\ sres.kind = "Err" /\ pc = "done") =>
            result = Transfer /\ nReads = 0
    /\ lastResp.kind \in {"UnknownReply", "DataLength"} =>
            pc = "done" /\ result = FastbootParseError(lastResp.kind)

\* C12 witness: a command whose write failed ended with the transport error
\* and without a read
C12_Witness ==
    /\ op = "get_var"
    /\ pc = "done"
    /\ result = Transfer
    /\ wrote = <<>>
    /\ nReads = 0

\* C13 as stated: whenever write_out_stream returns, every transfer it
\* submitted has been awaited.
C13_ReturnsAfterAllAwaited ==
    pc = "s_ret" => Len(awaited) = nSub /\ queued = <<>>

\* C13 amended: when write_out_stream returns Ok, every transfer it submitted
\* has been awaited, oldest first, and none is left in the queue; a return
\* with an error may leave submitted transfers unawaited.
C13_OkReturnsAfterAllAwaited ==
    (pc = "s_ret" /\ sres.kind = "Ok") =>
        /\ queued = <<>>
        /\ awaited = [i \in 1..nSub |-> i]

\* C13 witness: an Ok return after more transfers than the window holds
C13_Witness ==
    /\ pc = "s_ret"
    /\ sres.kind = "Ok"
    /\ nSub = MaxChunks
    /\ Len(awaited) = MaxChunks

\* C14: when the await of a transfer fails, write_out_stream returns the
\* transport error in that step: no chunk is submitted after it, the
\* transfers still queued are not awaited, and no total is returned.
C14_FailedAwaitAborts ==
    rejected =>
        /\ pc = "s_ret"
        /\ sres = [kind |-> "Err", val |-> 0]
        /\ awaited # <<>>
        /\ { queued[i].id : i \in 1..Len(queued) } =
               (1..nSub) \ { awaited[i] : i \in 1..Len(awaited) }

\* C14 witness: the await inside the loop failed with three transfers still
\* queued, one of them not settled
C14_Witness ==
    /\ rejected
    /\ Len(queued) = WindowLimit
    /\ \E i \in 1..Len(queued) : ~queued[i].done

\* C19: with a finite source and every submitted transfer settling
\* eventually, in any order, write_out_stream returns.
C19_StreamTerminates ==
    (pc \in {"s_read", "s_await", "s_drain"}) ~> (pc = "s_ret")

\* C19 witness: the uploader waits for its oldest transfer, which has not
\* settled, while a younger one has
C19_Witness ==
    /\ pc \in {"s_await", "s_drain"}
    /\ Len(queued) >= 2
    /\ ~queued[Len(queued)].done
    /\ queued[1].done

\* C20: the total write_out_stream returns is the sum of the byte counts of
\* the transfers taken in submission order, also when the transfers settled
\* in another order; when every transfer reports all of its bytes, it is the
\* length of the source.
C20_TotalIndependentOfCompletionOrder ==
    (pc = "s_ret" /\ sres.kind = "Ok" /\ outOfOrder) =>
        /\ awaited = [i \in 1..nSub |-> i]
        /\ sres.val = reported
        /\ exact => sres.val = srcBytes

\* C20 witness: an Ok return of a stream whose transfers settled out of order
C20_Witness ==
    /\ pc = "s_ret"
    /\ sres.kind = "Ok"
    /\ outOfOrder
    /\ nSub = MaxChunks
    /\ ~exact

\* the four tags of the protocol
FourTags == {OKAY, INFO, FAIL, DATA}

\* C15 as stated: a byte sequence shorter than 4 bytes, or one whose first 4
\* bytes are none of OKAY, INFO, FAIL, DATA, decodes to the UnknownReply error.
C15_UnknownReplyForBadTag ==
    (rxResp # NoResp /\ (Len(rxBytes) < 4 \/ SubSeq(rxBytes, 1, 4) \notin FourTags)) =>
        rxResp = Resp("UnknownReply", <<>>, U32Zero)

\* a string up to its first null byte
RECURSIVE UpToNull(_)
UpToNull(s) ==
    IF s = <<>> \/ Head(s) = 0 THEN <<>> ELSE <<Head(s)>> \o UpToNull(Tail(s))

\* C16: for each of the four tags, a frame decodes to what the frame cut just
\* before the first null byte of its payload decodes to; for OKAY, INFO and FAIL
\* with a UTF-8 payload before the null that is the variant of the tag carrying
\* exactly that payload. The bytes from the null onward change nothing.
C16_NullTruncation ==
    (rxResp # NoResp /\ Len(rxBytes) >= 4 /\ SubSeq(rxBytes, 1, 4) \in FourTags) =>
        LET tag == SubSeq(rxBytes, 1, 4)
            cut == UpToNull(SubSeq(rxBytes, 5, Len(rxBytes)))
        IN  /\ rxResp = from_bytes(tag \o cut)
            /\ (tag # DATA /\ from_utf8_ok(cut)) =>
                   /\ rxResp.data = cut
                   /\ rxResp.kind = (CASE tag = OKAY -> "Okay"
                                       [] tag = INFO -> "Info"
                                       [] tag = FAIL -> "Fail")

\* C16 witness: OKAY "1" NUL 0xFF decoded to Okay("1")
C16_Witness ==
    /\ rxBytes = OKAY \o <<49, 0, 255>>
    /\ rxResp = Resp("Okay", <<49>>, U32Zero)

\* a non-empty string of hexadecimal digits
IsHexString(s) ==
    /\ s # <<>>
    /\ \A i \in 1..Len(s) : s[i] \in (48..57) \cup (65..70) \cup (97..102)

\* the value of a string of hexadecimal digits, as <<high half, low half>>
RECURSIVE HexValue(_)
HexValue(s) ==
    IF s = <<>> THEN <<0, 0>>
    ELSE LET v == HexValue(SubSeq(s, 1, Len(s) - 1))
             c == s[Len(s)]
             d == IF c <= 57 THEN c - 48 ELSE IF c <= 70 THEN c - 55 ELSE c - 87
         IN  << (v[1] * 16 + v[2] \div 4096) % 65536, (v[2] % 4096) * 16 + d >>

\* C17 as stated: a DATA frame decodes to Data(value) exactly when its payload
\* up to the first null is valid hexadecimal, of any digit count, and to the
\* DataLength error for every other payload.
C17_DataIffHex ==
    (rxResp # NoResp /\ Len(rxBytes) >= 4 /\ SubSeq(rxBytes, 1, 4) = DATA) =>
        LET payload == UpToNull(SubSeq(rxBytes, 5, Len(rxBytes)))
        IN  IF IsHexString(payload)
              THEN rxResp.kind = "Data" /\ rxResp.len = HexValue(payload)
              ELSE rxResp = Resp("DataLength", <<>>, U32Zero)

\* C18: Download(n) is written as "download:" and exactly 8 lowercase
\* hexadecimal digits, and those digits decoded as the payload of a DATA frame
\* give Data(n).
C18_DownloadRoundTrip ==
    txCmd # <<>> =>
        /\ Len(txCmd) = 17
        /\ SubSeq(txCmd, 1, 9) = <<100, 111, 119, 110, 108, 111, 97, 100, 58>>
        /\ \A i \in 10..17 : txCmd[i] \in (48..57) \cup (97..102)
        /\ from_bytes(DATA \o SubSeq(txCmd, 10, Len(txCmd))) = Resp("Data", <<>>, txSize)

\* C18 witness: Download(0xabcdef01) written as "download:abcdef01"
C18_Witness ==
    /\ txSize = <<43981, 61185>>
    /\ txCmd = <<100, 111, 119, 110, 108, 111, 97, 100, 58,
                 97, 98, 99, 100, 101, 102, 48, 49>>

\* The session under its scheduling: the task running a response loop is
\* resumed whenever its read has completed, and the device sends at most
\* MaxInfo Info frames before a frame of another kind (MaySend).
SpecLoops ==
    /\ Spec
    /\ WF_allVars(handle_responses)
    /\ WF_allVars(download_loop)
    /\ WF_allVars(get_all_vars_loop)

\* C21 as stated: a response loop that is reading eventually returns to its
\* caller, given that reads complete and a frame that is not Info arrives.
C21_LoopReturns ==
    (pc = "read") ~> (pc = "done")

\* C22: while the source yields chunks, a transfer is awaited only when 4 are
\* in flight, and then exactly one, the oldest, before the new chunk is
\* submitted; with fewer than 4 in flight the chunk read is submitted in the
\* same step and nothing is awaited.
C22_AwaitOnlyWhenWindowFull ==
    [][ /\ (pc \in {"s_read", "s_await"} /\ awaited' # awaited) =>
              /\ pc = "s_await"
              /\ Len(queued) = WindowLimit + 1
              /\ awaited' = Append(awaited, queued[Len(queued)].id)
              /\ \/ nSub' = nSub + 1 /\ Len(queued') = WindowLimit + 1
                 \/ sres'.kind = "Err" /\ pc' = "s_ret"
        /\ (pc = "s_read" /\ nChunks' = nChunks + 1) =>
              IF Len(queued) < WindowLimit + 1
                THEN /\ awaited' = awaited
                     /\ \/ nSub' = nSub + 1 /\ Len(queued') = Len(queued) + 1
                        \/ sres'.kind = "Err" /\ pc' = "s_ret"
                ELSE /\ pc' = "s_await"
                     /\ nSub' = nSub
                     /\ awaited' = awaited
      ]_allVars

\* C22 witness: four chunks were submitted and none awaited yet
C22_Witness ==
    /\ pc = "s_read"
    /\ nSub = WindowLimit + 1
    /\ Len(queued) = WindowLimit + 1
    /\ awaited = <<>>

\* what the response loop of handle_responses returns on its last frame, or
\* on a failed read (no frame)
LoopResult(resp) ==
    CASE resp.kind = "Okay" -> Ok(resp.data, TRUE)
      [] resp.kind = "Fail" -> FastbootFailed(resp.data)
      [] resp.kind = "Data" -> FastbootUnexpectedReply
      [] resp.kind = "None" -> Transfer
      [] OTHER              -> FastbootParseError(resp.kind)

\* C23: once write_out_stream returned a total, whatever it is, do_download
\* goes on to the response loop and returns what that loop yields; the total
\* is compared with nothing.
C23_ResultIgnoresTotal ==
    (op = "do_download" /\ sres.kind = "Ok" /\ pc \in {"read", "done"}) =>
        /\ written = sres.val
        /\ pc = "done" => (nReads > 0 /\ result = LoopResult(lastResp))
        /\ pc = "read" => result = NoResult

\* C23 witness: nothing was streamed, although download announced a size, and
\* do_download returned the payload of the final Okay
C23_Witness ==
    /\ op = "do_download"
    /\ pc = "done"
    /\ written = 0
    /\ result.kind = "Ok"
    /\ lastResp.kind = "Okay"

\* C24: write_out_stream hands each chunk it read to the transport before it
\* reads the next one, so in the order read, and each is non-empty and at most
\* output_size long; after the zero-length read (the drain) nothing is read or
\* submitted; an empty source returns total 0 with nothing submitted.
C24_ChunksInReadOrder ==
    /\ [](/\ (pc = "s_read" /\ op = "do_download") => nSub = nChunks
          /\ pc = "s_await" => (nSub = nChunks - 1 /\ chunk \in 1..output_size)
          /\ \A i \in 1..Len(queued) :
                /\ queued[i].sz \in 1..output_size
                /\ i < Len(queued) => queued[i].id = queued[i + 1].id + 1
          /\ (pc = "s_ret" /\ sres.kind = "Ok" /\ nChunks = 0) =>
                (sres.val = 0 /\ nSub = 0 /\ awaited = <<>>))
    /\ [][ /\ (pc \in {"s_read", "s_await"} /\ nSub' # nSub) =>
                /\ nSub' = nSub + 1
                /\ queued'[1].id = nSub'
                /\ queued'[1].sz = (IF pc = "s_read" THEN srcBytes' - srcBytes ELSE chunk)
           /\ pc = "s_drain" =>
                /\ nChunks' = nChunks
                /\ srcBytes' = srcBytes
                /\ nSub' = nSub
                /\ pc' \in {"s_drain", "s_ret"}
         ]_allVars

\* C24 witness: five chunks of both sizes were read and submitted, then the
\* zero-length read ended the reading
C24_Witness ==
    /\ pc = "s_drain"
    /\ nChunks = MaxChunks
    /\ nSub = MaxChunks
    /\ Len(queued) = WindowLimit + 1
    /\ queued[1].sz = 1
    /\ queued[2].sz = output_size

\* the operations that send a command
CommandOps ==
    {"get_var", "download", "flash", "erase", "boot", "reboot", "reboot_bootloader",
     "get_all_vars"}

\* C25: an operation that sends a command calls write_out exactly once, with
\* its own command, before any read, and never again; do_download never calls
\* write_out, runs write_out_stream once, and reads only after it returned.
C25_OneWriteBeforeReads ==
    /\ [](/\ op \in CommandOps =>
                /\ (pc = "send" => nWrites = 0 /\ nReads = 0)
                /\ (pc \in {"read", "done", "panicked"} => nWrites = 1)
                /\ (nReads > 0 => wrote = <<fmt(CmdOf(op, arg))>>)
          /\ op = "do_download" =>
                /\ nWrites = 0
                /\ wrote = <<>>
                /\ (pc \in {"s_read", "s_await", "s_drain", "s_ret"} => nReads = 0)
                /\ (nReads > 0 => sres.kind = "Ok"))
    /\ [][ (pc \in {"read", "panicked"}) =>
              /\ nWrites' = nWrites
              /\ wrote' = wrote
              /\ pc' \in {"read", "done", "panicked"}
         ]_allVars

\* C25 witness: erase wrote its one command and read three frames
C25_Witness ==
    /\ op = "erase"
    /\ pc = "done"
    /\ nWrites = 1
    /\ wrote = <<fmt(Cmd("Erase", arg))>>
    /\ nReads = MaxInfo + 1

\* the bytes of the buffer that the last read put there: those before the
\* first left-over position
RECURSIVE Received(_)
Received(b) ==
    IF b = <<>> \/ Head(b) = -1 THEN <<>> ELSE <<Head(b)>> \o Received(Tail(b))

\* C26: after any read of an operation the scratch buffer is BufSize (64)
\* bytes long, whatever command was written into it before; the response is
\* decoded from exactly the bytes the read delivered; and a read of 0 bytes
\* ends the operation with the UnknownReply parse error, without another read.
C26_ReadBufferAndDecode ==
    nReads > 0 =>
        /\ Len(buf) = BufSize
        /\ lastResp # NoResp =>
              /\ lastResp = from_bytes(Received(buf))
              /\ Received(buf) = <<>> =>
                    /\ pc = "done"
                    /\ result = FastbootParseError("UnknownReply")
                    /\ nReads = Len(infoLog) + 1

\* C26 witness: after the 4-byte command "boot" and one Info frame, a read of
\* 0 bytes ended the operation
C26_Witness ==
    /\ op = "boot"
    /\ wrote = << <<98, 111, 111, 116>> >>
    /\ nReads = 2
    /\ Len(buf) = BufSize
    /\ Received(buf) = <<>>
    /\ result = FastbootParseError("UnknownReply")

\* what the transport sees in a complete boot_uboot that downloads size bytes
BootSequence(size) ==
    << WriteOut(fmt(Cmd("Download", size))), WriteOutStream, WriteOut(fmt(Cmd("Boot", <<>>))) >>

\* C27: in boot_uboot the transport is handed the Download command, then the
\* streamed payload, then the Boot command, in that order and nothing else;
\* the stream starts only after download returned Ok on a Data frame, Boot is
\* written only after do_download then returned Ok on an Okay frame, and once
\* boot_uboot has returned nothing more is written.
C27_BootUbootOrder ==
    /\ [](caller = "boot_uboot" =>
            /\ \E size \in Sizes : wire = SubSeq(BootSequence(size), 1, Len(wire))
            /\ Len(wire) <= 3
            /\ (Len(wire) = 3 => (op = "boot" /\ cstep \in {"boot", "ret"}))
            /\ (Len(wire) = 2 => op \in {"do_download", "boot"})
            /\ ((cstep = "ret" /\ cres = "Err" /\ op # "boot") => Len(wire) < 3))
    /\ [][ caller = "boot_uboot" =>
              /\ (Len(wire') = 2 /\ Len(wire) = 1) =>
                    /\ op = "download"
                    /\ pc = "done"
                    /\ result.kind = "Ok"
                    /\ lastResp.kind = "Data"
              /\ (op' = "boot" /\ op # "boot") =>
                    /\ op = "do_download"
                    /\ pc = "done"
                    /\ result.kind = "Ok"
                    /\ sres.kind = "Ok"
                    /\ lastResp.kind = "Okay"
                    /\ Len(wire) = 2
              /\ cstep = "ret" => wire' \in {wire, <<>>}
         ]_allVars

\* C27 witness: boot_uboot returned Ok after Download 0x123456, the stream and
\* Boot went to the transport
C27_Witness ==
    /\ caller = "boot_uboot"
    /\ cstep = "ret"
    /\ cres = "Ok"
    /\ wire = BootSequence(<<18, 13398>>)
====
